---- MODULE Spec2Model ----
(***************************************************************************)
(* Cache / queue refresh subsystem of the 8Byte portfolio tracker:         *)
(*   - Quote Fetcher   (lib/portfolioEnrich.ts: fetchQuote and helpers)    *)
(*   - Portfolio Cache / Serving Path (routes/v1/stocks.ts)                *)
(*   - Refresh Queue   (packages/cached-db/index.ts, Redis stream)         *)
(*   - Queue Worker    (ws-server queueWorker.ts)                          *)
(*   - Scheduler       (ws-server refreshJob.ts)                           *)
(*                                                                         *)
(* Money is counted in thousandths of a rupee, so that 0.01 is 10.         *)
(* An optional value (number | null | undefined) is a set with at most one *)
(* element: None is null/undefined, Some(x) is the value x.                *)
(***************************************************************************)
EXTENDS Integers, Sequences, FiniteSets, TLC

None == {}
Some(x) == {x}
Val(o) == CHOOSE x \in o : TRUE

\* ---------------------------------------------------------------- bounds
MaxStream == 2
MaxClock == 2
MaxPosts == 1
MaxLines == 32
MaxBacklog == 3
MaxRefreshing == 2
MaxHoldings == 1

\* ------------------------------------------------------------ data domain
Users == {"u1", "u2", "u3"}
Sources == {"nse", "yahoo", "google"}
Symbols == {"TCS"}

\* Rows of the persistent store: a user row is absent, or has a portfolio
\* that is absent or carries its list of stock rows.
StockTCS == [symbol |-> "TCS", purchasedPrice |-> 10000, purchasedQuantity |-> 2,
             investment |-> 20000]
DbConfigs ==
  { [u1 |-> Some([portfolio |-> Some(<<StockTCS>>)]),
     u2 |-> Some([portfolio |-> Some(<<>>)]),
     u3 |-> None] }

\* user.portfolio?.stocks ?? []
StocksOf(user) == IF user.portfolio = None THEN <<>> ELSE Val(user.portfolio)

\* What the three providers may answer when their request does not fail.
\* NSE: priceInfo.lastPrice, priceInfo.previousClose, metadata.pdSectorPe.
NseResponses ==
  { [lastPrice |-> Some(11000), previousClose |-> Some(9900), pdSectorPe |-> Some(20)],
    [lastPrice |-> None, previousClose |-> Some(9900), pdSectorPe |-> Some(20)],
    [lastPrice |-> None, previousClose |-> None, pdSectorPe |-> None],
    [lastPrice |-> Some(0), previousClose |-> None, pdSectorPe |-> Some(0)] }
\* Yahoo: meta.regularMarketPrice, meta.previousClose.
YahooResponses ==
  { [regularMarketPrice |-> Some(10000), previousClose |-> None],
    [regularMarketPrice |-> None, previousClose |-> Some(9900)],
    [regularMarketPrice |-> None, previousClose |-> None] }
\* Google: the number after the P/E pattern, the date after the earnings one.
GoogleResponses ==
  { [pe |-> Some(25), earnings |-> Some("12 Jan 2026")],
    [pe |-> Some(0), earnings |-> None] }

NullQuote ==
  [cmp |-> None, previousClose |-> None, peRatio |-> None, latestEarnings |-> None]

VARIABLES
  redisUrl,        \* REDIS_URL is set: getRedis() returns a client
  quoteCache,      \* [<<symbol, source>> -> option of cached quote]
  portfolioCache,  \* [user -> option of cached snapshot]
  db,              \* persistent store: [user -> option of stock rows]
  clock,           \* source of cachedAt
  stream,          \* Redis stream: sequence of userIds, stream id = index
  groupCreated,    \* the consumer group exists
  lastDelivered,   \* the group's last-delivered id
  pel,             \* the group's pending entries list (delivered, unacked ids)
  acked,           \* ids XACK has removed from the pending list
  deliveries,      \* [id -> number of times a read returned it]
  wpc,             \* queue worker: "init", "off", "ready", "processing", "delay", "backoff"
  scheduled,       \* processBatch invocations executing or scheduled to run
  wbatch,          \* messages of the current batch not yet processed
  refreshing,      \* refresh() runs in flight: for each the users still to push
  posts,           \* POST /refresh-portfolio requests in flight, per user
  last             \* what the last operation did (observation only)

vars == <<redisUrl, quoteCache, portfolioCache, db, clock, stream, groupCreated,
          lastDelivered, pel, acked, deliveries, wpc, scheduled, wbatch, refreshing,
          posts, last>>

QuoteKeys == Symbols \X Sources

\* ------------------------------------------------------------ quote cache
\* getQuoteCache: null without a client; otherwise the GET may reject, and an
\* absent key reads as null.
GetQuoteCache(qc, symbol, source) ==
  IF ~redisUrl THEN { [threw |-> FALSE, v |-> None] }
  ELSE { [threw |-> TRUE, v |-> None],
         [threw |-> FALSE, v |-> qc[<<symbol, source>>]] }

\* A write that stores the data under every source of the symbol.
SetQuoteCache_EverySource(qc, symbol, source, data) ==
  IF ~redisUrl THEN { [threw |-> FALSE, qc |-> qc] }
  ELSE { [threw |-> TRUE, qc |-> qc],
         [threw |-> FALSE,
          qc |-> [k \in QuoteKeys |-> IF k[1] = symbol THEN Some(data) ELSE qc[k]]] }

\* setQuoteCache: a no-op without a client; otherwise the SETEX may reject.
SetQuoteCache(qc, symbol, source, data) ==
  IF ~redisUrl THEN { [threw |-> FALSE, qc |-> qc] }
  ELSE { [threw |-> TRUE, qc |-> qc],
         [threw |-> FALSE, qc |-> [qc EXCEPT ![<<symbol, source>>] = Some(data)]] }

\* One run of a fetch: what it returned or that it raised, the quote cache it
\* left, which cache entries it read (rd) and wrote (wr), which providers it
\* requested over the network (net), and what each provider did:
\*   a: "cache" | "net" (price data received) | "nofields" | "bad" | "throw"
\*      | "rdthrow" (the cache read rejected)
\*   b: "none" (not consulted) | "cache" | "net" (price received) | "noprice"
\*      | "throw" | "rdthrow"
\*   c: "none" | "cache" | "net" (ratio or earnings parsed) | "nodata" | "throw"
\*      | "rdthrow"
\* bp is the price provider B supplied (from its cache or its response).
Run(raised, out, qc, rd, wr, net, a, b, c, bp) ==
  [raised |-> raised, out |-> out, qc |-> qc, rd |-> rd, wr |-> wr, net |-> net,
   a |-> a, b |-> b, c |-> c, bp |-> bp]

\* ------------------------------------------------------------------ Yahoo
YahooNet(qc, symbol) ==
  { Run(FALSE, NullQuote, qc, {"yahoo"}, {}, {"yahoo"}, "x", "throw", "none", None) }
  \cup UNION {
      LET rmp == resp.regularMarketPrice
          prev == resp.previousClose
          cmp == IF rmp # None THEN rmp ELSE prev
          out == [NullQuote EXCEPT !.cmp = cmp, !.previousClose = prev]
      IN  IF cmp # None
          THEN { IF w.threw
                 THEN Run(FALSE, NullQuote, w.qc, {"yahoo"}, {"yahoo"}, {"yahoo"},
                          "x", "net", "none", cmp)
                 ELSE Run(FALSE, out, w.qc, {"yahoo"}, {"yahoo"}, {"yahoo"},
                          "x", "net", "none", cmp)
                 : w \in SetQuoteCache(qc, symbol, "yahoo", out) }
          ELSE { Run(FALSE, out, qc, {"yahoo"}, {}, {"yahoo"}, "x", "noprice", "none", None) }
      : resp \in YahooResponses }

fetchYahooCmp(qc, symbol) ==
  UNION {
    IF r.threw
    THEN { Run(TRUE, NullQuote, qc, {"yahoo"}, {}, {}, "x", "rdthrow", "none", None) }
    ELSE IF r.v # None /\ Val(r.v).cmp # None
    THEN { Run(FALSE, Val(r.v), qc, {"yahoo"}, {}, {}, "x", "cache", "none", Val(r.v).cmp) }
    ELSE YahooNet(qc, symbol)
    : r \in GetQuoteCache(qc, symbol, "yahoo") }

\* ----------------------------------------------------------------- Google
\* The ratio parsed from the page is kept only when finite, > 0 and < 1e6.
GoogleNet(qc, symbol) ==
  { Run(FALSE, NullQuote, qc, {"google"}, {}, {"google"}, "x", "x", "throw", None) }
  \cup UNION {
      LET peRaw == resp.pe
          earn == resp.earnings
          peRatio == IF peRaw # None /\ Val(peRaw) > 0 /\ Val(peRaw) < 1000000
                     THEN peRaw ELSE None
          out == [NullQuote EXCEPT !.peRatio = peRatio, !.latestEarnings = earn]
      IN  IF peRatio # None \/ earn # None
          THEN { Run(FALSE, out, w.qc, {"google"}, {"google"}, {"google"},
                     "x", "x", "net", None)
                 : w \in { x \in SetQuoteCache(qc, symbol, "google", out) : ~x.threw } }
               \cup
               { Run(FALSE, NullQuote, w.qc, {"google"}, {"google"}, {"google"},
                     "x", "x", "net", None)
                 : w \in { x \in SetQuoteCache(qc, symbol, "google", out) : x.threw } }
          ELSE { Run(FALSE, out, qc, {"google"}, {}, {"google"}, "x", "x", "nodata", None) }
      : resp \in GoogleResponses }

fetchGooglePeAndEarnings(qc, symbol) ==
  UNION {
    IF r.threw
    THEN { Run(TRUE, NullQuote, qc, {"google"}, {}, {}, "x", "x", "rdthrow", None) }
    ELSE IF r.v # None
            /\ (Val(r.v).peRatio # None \/ Val(r.v).latestEarnings # None)
    THEN { Run(FALSE, [NullQuote EXCEPT !.peRatio = Val(r.v).peRatio,
                                        !.latestEarnings = Val(r.v).latestEarnings],
               qc, {"google"}, {}, {}, "x", "x", "cache", None) }
    ELSE GoogleNet(qc, symbol)
    : r \in GetQuoteCache(qc, symbol, "google") }

\* ------------------------------------------------------------- fetchQuote
\* Lines 188-202: after NSE was marked failed, Yahoo for the price and, only
\* when Yahoo gave one, Google for ratio and earnings.
NseFailed(qc, symbol, a, wrA) ==
  UNION {
    IF y.raised
    THEN { Run(TRUE, NullQuote, y.qc, {"nse"} \cup y.rd, wrA \cup y.wr,
               {"nse"} \cup y.net, a, y.b, "none", y.bp) }
    ELSE IF y.out.cmp # None
    THEN { Run(g.raised,
               IF g.raised THEN NullQuote
               ELSE [cmp |-> y.out.cmp, previousClose |-> y.out.previousClose,
                     peRatio |-> g.out.peRatio,
                     latestEarnings |-> g.out.latestEarnings],
               g.qc, {"nse"} \cup y.rd \cup g.rd, wrA \cup y.wr \cup g.wr,
               {"nse"} \cup y.net \cup g.net, a, y.b, g.c, y.bp)
           : g \in fetchGooglePeAndEarnings(y.qc, symbol) }
    ELSE { Run(FALSE, NullQuote, y.qc, {"nse"} \cup y.rd, wrA \cup y.wr,
               {"nse"} \cup y.net, a, y.b, "none", y.bp) }
    : y \in fetchYahooCmp(qc, symbol) }

\* Lines 132-186: the NSE request. A thrown request and an unexpected response
\* mark NSE failed; so does a rejected cache write after a good response. A
\* 200 object without lastPrice and previousClose leaves nseFailed false.
NseNet(qc, symbol) ==
  NseFailed(qc, symbol, "throw", {})
  \cup NseFailed(qc, symbol, "bad", {})
  \cup UNION {
      LET lastPrice == resp.lastPrice
          prev == resp.previousClose
          out == [cmp |-> lastPrice, previousClose |-> prev,
                  peRatio |-> resp.pdSectorPe, latestEarnings |-> None]
      IN  IF lastPrice # None \/ prev # None
          THEN UNION {
                 IF w.threw
                 THEN NseFailed(w.qc, symbol, "net", {"nse"})
                 ELSE { Run(FALSE, out, w.qc, {"nse"}, {"nse"}, {"nse"},
                            "net", "none", "none", None) }
                 : w \in SetQuoteCache(qc, symbol, "nse", out) }
          ELSE { Run(FALSE, NullQuote, qc, {"nse"}, {}, {"nse"},
                     "nofields", "none", "none", None) }
      : resp \in NseResponses }

fetchQuote(qc, symbol) ==
  UNION {
    IF r.threw
    THEN { Run(TRUE, NullQuote, qc, {"nse"}, {}, {}, "rdthrow", "none", "none", None) }
    ELSE IF r.v # None /\ (Val(r.v).cmp # None \/ Val(r.v).previousClose # None)
    THEN { Run(FALSE, Val(r.v), qc, {"nse"}, {}, {}, "cache", "none", "none", None) }
    ELSE NseNet(qc, symbol)
    : r \in GetQuoteCache(qc, symbol, "nse") }

\* ------------------------------------------------- buildEnrichedPortfolio
\* Cutting off after two decimals instead of rounding.
Round2_Truncate(x) == (x \div 10) * 10

\* Math.round(x * 100) / 100 on thousandths: to the nearest 10, halves up.
Round2(x) == ((x + 5) \div 10) * 10

RECURSIVE SumInvestment(_)
SumInvestment(stocks) ==
  IF stocks = <<>> THEN 0
  ELSE Head(stocks).investment + SumInvestment(Tail(stocks))

\* The share cut off after two decimals instead of rounded.
PortfolioPercent_Truncated(investment, totalInvestment) ==
  IF totalInvestment > 0
  THEN LET a1 == 10 * (investment % totalInvestment)
           a2 == 10 * (a1 % totalInvestment)
           a3 == 10 * (a2 % totalInvestment)
           a4 == 10 * (a3 % totalInvestment)
       IN  (investment \div totalInvestment) * 10000 + (a1 \div totalInvestment) * 1000
           + (a2 \div totalInvestment) * 100 + (a3 \div totalInvestment) * 10
           + (a4 \div totalInvestment)
  ELSE 0

\* portfolioPercent in hundredths of a percent:
\* Math.round((investment / totalInvestment) * 10000) / 100, the quotient
\* taken digit by digit so that the products stay within 32 bits.
PortfolioPercent(investment, totalInvestment) ==
  IF totalInvestment > 0
  THEN LET a1 == 10 * (investment % totalInvestment)
           a2 == 10 * (a1 % totalInvestment)
           a3 == 10 * (a2 % totalInvestment)
           a4 == 10 * (a3 % totalInvestment)
       IN  (investment \div totalInvestment) * 10000 + (a1 \div totalInvestment) * 1000
           + (a2 \div totalInvestment) * 100 + (a3 \div totalInvestment) * 10
           + (a4 \div totalInvestment)
           + (IF 2 * (a4 % totalInvestment) >= totalInvestment THEN 1 ELSE 0)
  ELSE 0

EnrichedStock(s, quote, totalInvestment) ==
  LET cmpNum == IF quote.cmp # None THEN Val(quote.cmp) ELSE s.purchasedPrice
      presentValue == Round2(cmpNum * s.purchasedQuantity)
  IN  [symbol |-> s.symbol, purchasePrice |-> s.purchasedPrice,
       quantity |-> s.purchasedQuantity, investment |-> s.investment,
       cmp |-> quote.cmp, presentValue |-> presentValue,
       gainLoss |-> Round2(presentValue - s.investment),
       peRatio |-> quote.peRatio, latestEarnings |-> quote.latestEarnings,
       portfolioPercent |-> PortfolioPercent(s.investment, totalInvestment)]

\* Promise.all over the stock rows: every fetchQuote runs to its end; the
\* build rejects when any of them raised. down: every fetchQuote found the
\* quote cache unreadable at its first read.
RECURSIVE EnrichAll(_, _, _)
EnrichAll(stocks, totalInvestment, qc) ==
  IF stocks = <<>>
  THEN { [raised |-> FALSE, stocks |-> <<>>, qc |-> qc, n |-> 0,
          rd |-> {}, wr |-> {}, net |-> {}, down |-> TRUE] }
  ELSE UNION { {
         [raised |-> f.raised \/ rest.raised,
          stocks |-> <<EnrichedStock(Head(stocks), f.out, totalInvestment)>>
                     \o rest.stocks,
          qc |-> rest.qc, n |-> 1 + rest.n,
          rd |-> f.rd \cup rest.rd, wr |-> f.wr \cup rest.wr,
          net |-> f.net \cup rest.net,
          down |-> (f.a = "rdthrow") /\ rest.down]
         : rest \in EnrichAll(Tail(stocks), totalInvestment, f.qc) }
       : f \in fetchQuote(qc, Head(stocks).symbol) }

\* The rows the callback of stocks.map returns when fetchQuote gave the same
\* quote for every row.
EnrichedLines(stocks, quote) ==
  [i \in 1..Len(stocks) |-> EnrichedStock(stocks[i], quote, SumInvestment(stocks))]

Snapshot(user, stocks, totalInvestment, cachedAt) ==
  [id |-> user, stocks |-> stocks, totalInvestment |-> totalInvestment,
   cachedAt |-> cachedAt]

\* The runs of buildEnrichedPortfolio: payload is None when it returned null
\* (no stock rows) or rejected.
buildEnrichedPortfolio(user, stocks, qc, cachedAt) ==
  IF Len(stocks) = 0
  THEN { [raised |-> FALSE, payload |-> None, qc |-> qc, n |-> 0,
          rd |-> {}, wr |-> {}, net |-> {}, down |-> TRUE] }
  ELSE { [raised |-> e.raised,
          payload |-> IF e.raised THEN None
                      ELSE Some(Snapshot(user, e.stocks, SumInvestment(stocks),
                                         cachedAt)),
          qc |-> e.qc, n |-> e.n, rd |-> e.rd, wr |-> e.wr, net |-> e.net,
          down |-> e.down]
         : e \in EnrichAll(stocks, SumInvestment(stocks), qc) }

\* -------------------------------------------------------- portfolio cache
\* getPortfolioEnrichedCache: null without a client; the GET may reject.
GetPortfolioEnrichedCache(userId) ==
  IF ~redisUrl THEN { [threw |-> FALSE, v |-> None] }
  ELSE { [threw |-> TRUE, v |-> None],
         [threw |-> FALSE, v |-> portfolioCache[userId]] }

\* A write that replaces only the rows of a document already stored and
\* keeps its other fields.
SetPortfolioEnrichedCache_KeepsOldFields(userId, data) ==
  IF ~redisUrl THEN { [threw |-> FALSE, pc |-> portfolioCache, w |-> "noclient"] }
  ELSE { [threw |-> TRUE, pc |-> portfolioCache, w |-> "threw"],
         [threw |-> FALSE,
          pc |-> [portfolioCache EXCEPT ![userId] =
                    IF @ = None THEN Some(data)
                    ELSE Some([Val(@) EXCEPT !.stocks = data.stocks])],
          w |-> "ok"] }

\* A write that stores a snapshot only when it has live data.
SetPortfolioEnrichedCache_OnlyLiveData(userId, data) ==
  IF ~redisUrl THEN { [threw |-> FALSE, pc |-> portfolioCache, w |-> "noclient"] }
  ELSE IF \A i \in 1..Len(data.stocks) : data.stocks[i].cmp = None
  THEN { [threw |-> FALSE, pc |-> portfolioCache, w |-> "none"] }
  ELSE { [threw |-> TRUE, pc |-> portfolioCache, w |-> "threw"],
         [threw |-> FALSE, pc |-> [portfolioCache EXCEPT ![userId] = Some(data)],
          w |-> "ok"] }

\* setPortfolioEnrichedCache: a no-op without a client; the SETEX may reject;
\* otherwise the whole document replaces the key's value.
SetPortfolioEnrichedCache(userId, data) ==
  IF ~redisUrl THEN { [threw |-> FALSE, pc |-> portfolioCache, w |-> "noclient"] }
  ELSE { [threw |-> TRUE, pc |-> portfolioCache, w |-> "threw"],
         [threw |-> FALSE, pc |-> [portfolioCache EXCEPT ![userId] = Some(data)],
          w |-> "ok"] }

\* ----------------------------------------------------------- serving path
Abs(x) == IF x < 0 THEN -x ELSE x

\* The ratio looked at before the cmp guard: a row without cmp counts as live.
RowHasLiveData_PeFirst(row) ==
  IF row.peRatio # None /\ Val(row.peRatio) > 0 THEN TRUE
  ELSE IF row.cmp = None \/ Val(row.cmp) <= 0 THEN FALSE
  ELSE IF Abs(Val(row.cmp) - row.purchasePrice) > 10 THEN TRUE
  ELSE FALSE

\* The callback of body.stocks.some(...) at stocks.ts:158-166.
RowHasLiveData(row) ==
  IF row.cmp = None \/ Val(row.cmp) <= 0 THEN FALSE
  ELSE IF row.peRatio # None /\ Val(row.peRatio) > 0 THEN TRUE
  ELSE IF Abs(Val(row.cmp) - row.purchasePrice) > 10 THEN TRUE
  ELSE FALSE

\* Live as soon as some row carries a numeric cmp.
hasLiveData_AnyCmp(body) ==
  \E i \in 1..Len(body.stocks) : body.stocks[i].cmp # None

\* Live only when some row carries a positive ratio.
hasLiveData_PeOnly(body) ==
  \E i \in 1..Len(body.stocks) :
    /\ RowHasLiveData(body.stocks[i])
    /\ body.stocks[i].peRatio # None

hasLiveData(body) ==
  \E i \in 1..Len(body.stocks) : RowHasLiveData(body.stocks[i])

\* DB-only fallback of stocks.ts:239-269: the purchase price stands in for cmp.
FallbackStocks(stocks) ==
  [i \in 1..Len(stocks) |->
     LET s == stocks[i]
         pv == Round2(s.purchasedPrice * s.purchasedQuantity)
     IN  [symbol |-> s.symbol, purchasePrice |-> s.purchasedPrice,
          quantity |-> s.purchasedQuantity, investment |-> s.investment,
          cmp |-> Some(s.purchasedPrice), presentValue |-> pv,
          gainLoss |-> Round2(pv - s.investment),
          peRatio |-> None, latestEarnings |-> None,
          portfolioPercent |-> PortfolioPercent(s.investment, SumInvestment(stocks))]]

\* The refresh request awaited before the answer and its failure taken to the
\* outer catch: a request that queued a refresh answers 500.
Served_EnqueueDecides(user, r, path, status, body, dbLoads, b, w, enq) ==
  [op |-> "getOrBuild", user |-> user, cached |-> r.v, readThrew |-> r.threw,
   path |-> path, status |-> IF enq THEN 500 ELSE status,
   body |-> IF enq THEN None ELSE body, dbLoads |-> dbLoads,
   fetches |-> b.n, qrd |-> b.rd, qwr |-> b.wr, qnet |-> b.net, qdown |-> b.down,
   pcWrite |-> w, enq |-> enq]

\* A failed load of the user answered like a user without holdings.
Served_FailureAsEmpty(user, r, path, status, body, dbLoads, b, w, enq) ==
  [op |-> "getOrBuild", user |-> user, cached |-> r.v, readThrew |-> r.threw,
   path |-> path, status |-> IF status = 500 THEN 200 ELSE status,
   body |-> IF status = 500 THEN Some([id |-> user, stocks |-> <<>>,
                                       totalInvestment |-> 0, cachedAt |-> 0])
            ELSE body,
   dbLoads |-> dbLoads,
   fetches |-> b.n, qrd |-> b.rd, qwr |-> b.wr, qnet |-> b.net, qdown |-> b.down,
   pcWrite |-> w, enq |-> enq]

\* What one request did: r is the outcome of the cache read, b of the build.
Served(user, r, path, status, body, dbLoads, b, w, enq) ==
  [op |-> "getOrBuild", user |-> user, cached |-> r.v, readThrew |-> r.threw,
   path |-> path, status |-> status, body |-> body, dbLoads |-> dbLoads,
   fetches |-> b.n, qrd |-> b.rd, qwr |-> b.wr, qnet |-> b.net, qdown |-> b.down,
   pcWrite |-> w, enq |-> enq]

NoBuild == [n |-> 0, rd |-> {}, wr |-> {}, net |-> {}, down |-> TRUE]

\* The refresh request sent twice.
QueueRefresh_Twice(userId) == posts' = [posts EXCEPT ![userId] = @ + 2]

\* fetch(WS_SERVER_URL + "/refresh-portfolio") without await, stocks.ts:279-288.
QueueRefresh(userId) == posts' = [posts EXCEPT ![userId] = @ + 1]

\* GET /portfolio-enriched, stocks.ts:145-295.
\* The document the Serving Path hands to setPortfolioEnrichedCache after
\* loading the user: the empty snapshot when there are no stock rows
\* (stocks.ts:206-217), the payload of the build (231-233), or the DB-only
\* fallback when the build returned nothing or rejected (237-272).
ServingStores(userId, stocks, b, cachedAt) ==
  IF Len(stocks) = 0 THEN Some(Snapshot(userId, <<>>, 0, cachedAt))
  ELSE IF b.payload # None THEN b.payload
  ELSE Some(Snapshot(userId, FallbackStocks(stocks), SumInvestment(stocks), cachedAt))

GetOrBuild(userId) ==
  \E r \in GetPortfolioEnrichedCache(userId) :
    LET cached == r.v IN
    IF cached # None /\ hasLiveData(Val(cached))
    THEN \* cache HIT: respond with the cached body and return
         /\ last' = Served(userId, r, "hit", 200, cached, 0, NoBuild, "none", FALSE)
         /\ UNCHANGED <<redisUrl, refreshing, quoteCache, portfolioCache, db, clock, stream,
                        groupCreated, lastDelivered, pel, acked, deliveries,
                        wpc, scheduled, wbatch, posts>>
    ELSE
      \/ \* getPrisma() or findUnique rejects: outer catch, 500
         /\ last' = Served(userId, r, "error", 500, None, 1, NoBuild, "none", FALSE)
         /\ UNCHANGED <<redisUrl, refreshing, quoteCache, portfolioCache, db, clock, stream,
                        groupCreated, lastDelivered, pel, acked, deliveries,
                        wpc, scheduled, wbatch, posts>>
      \/ \* no such user: 404
         /\ db[userId] = None
         /\ last' = Served(userId, r, "nouser", 404, None, 1, NoBuild, "none", FALSE)
         /\ UNCHANGED <<redisUrl, refreshing, quoteCache, portfolioCache, db, clock, stream,
                        groupCreated, lastDelivered, pel, acked, deliveries,
                        wpc, scheduled, wbatch, posts>>
      \/ \* no stock rows: cache and return the empty snapshot, no refresh
         /\ db[userId] # None /\ Len(StocksOf(Val(db[userId]))) = 0
         /\ clock < MaxClock
         /\ clock' = clock + 1
         /\ LET empty == Val(ServingStores(userId, <<>>, NoBuild, clock')) IN
            \E w \in SetPortfolioEnrichedCache(userId, empty) :
              /\ portfolioCache' = w.pc
              /\ last' = Served(userId, r, "empty", 200, Some(empty), 1,
                                NoBuild, w.w, FALSE)
         /\ UNCHANGED <<redisUrl, refreshing, quoteCache, db, stream, groupCreated,
                        lastDelivered, pel, acked, deliveries, wpc, scheduled, wbatch, posts>>
      \/ \* build, or fall back to DB-only values; cache; respond; queue refresh
         /\ db[userId] # None /\ Len(StocksOf(Val(db[userId]))) > 0
         /\ clock < MaxClock
         /\ posts[userId] < MaxPosts
         /\ clock' = clock + 1
         /\ \E b \in buildEnrichedPortfolio(userId, StocksOf(Val(db[userId])), quoteCache, clock') :
              LET stocks == StocksOf(Val(db[userId]))
                  body == Val(ServingStores(userId, stocks, b, clock'))
              IN \E w \in SetPortfolioEnrichedCache(userId, body) :
                   /\ quoteCache' = b.qc
                   /\ portfolioCache' = w.pc
                   /\ QueueRefresh(userId)
                   /\ last' = Served(userId, r,
                                     IF b.payload # None THEN "built" ELSE "fallback",
                                     200, Some(body), 1, b, w.w, TRUE)
         /\ UNCHANGED <<redisUrl, refreshing, db, stream, groupCreated, lastDelivered, pel,
                        acked, deliveries, wpc, scheduled, wbatch>>

\* ---------------------------------------------------------- refresh queue
\* PORTFOLIO_QUEUE_BATCH_SIZE (the COUNT of XREADGROUP), here configured as 2.
BATCH_SIZE == 2

Min(a, b) == IF a < b THEN a ELSE b

\* A push that appends nothing when an entry of the same user is still
\* undelivered, and returns the id of that entry.
PushPortfolioRefreshToStream_Dedup(str, userId) ==
  IF ~redisUrl THEN { [threw |-> FALSE, id |-> None, stream |-> str] }
  ELSE IF \E i \in (lastDelivered + 1)..Len(str) : str[i] = userId
  THEN { [threw |-> FALSE,
          id |-> Some(CHOOSE i \in (lastDelivered + 1)..Len(str) : str[i] = userId),
          stream |-> str] }
  ELSE { [threw |-> TRUE, id |-> None, stream |-> str] }
       \cup { [threw |-> FALSE, id |-> Some(Len(str) + 1),
               stream |-> Append(str, userId)] : x \in { y \in {1} : Len(str) < MaxStream } }

\* pushPortfolioRefreshToStream: null without a client; XADD may reject;
\* otherwise the entry is appended and its id returned.
PushPortfolioRefreshToStream(str, userId) ==
  IF ~redisUrl THEN { [threw |-> FALSE, id |-> None, stream |-> str] }
  ELSE { [threw |-> TRUE, id |-> None, stream |-> str] }
       \cup { [threw |-> FALSE, id |-> Some(Len(str) + 1),
               stream |-> Append(str, userId)] : x \in { y \in {1} : Len(str) < MaxStream } }

\* A read that starts at the beginning of the stream instead of after the
\* group's last-delivered id.
NewEntries_FromStart(count) ==
  [i \in 1..Min(count, Len(stream)) |-> [streamId |-> i, userId |-> stream[i]]]

\* A read that returns the pending entries again before the new ones, as a
\* read from the start of the pending history would.
NewEntries_PendingAgain(count) ==
  LET from == IF pel = {} THEN lastDelivered
              ELSE (CHOOSE i \in pel : \A j \in pel : i <= j) - 1
  IN  [i \in 1..(Min(from + count, Len(stream)) - from) |->
         [streamId |-> from + i, userId |-> stream[from + i]]]

\* XREADGROUP GROUP g c COUNT n STREAMS s ">": the entries after the group's
\* last-delivered id, at most n of them, never an entry delivered before.
NewEntries(count) ==
  [i \in 1..(Min(lastDelivered + count, Len(stream)) - lastDelivered) |->
     [streamId |-> lastDelivered + i, userId |-> stream[lastDelivered + i]]]

\* XACK: removes the ids from the group's pending entries list.
XAck(ids) ==
  /\ pel' = pel \ ids
  /\ acked' = acked \cup (ids \cap pel)

\* ------------------------------------------------------------ queue worker
\* XGROUP CREATE stream group "0" MKSTREAM as Redis answers it: a new group
\* starts with its cursor at 0 and nothing pending; for an existing group the
\* command is refused with BUSYGROUP and changes nothing; the command may
\* fail otherwise (connection lost, retries exhausted).
XGroupCreate_Recreates ==
  { [reply |-> "error", group |-> groupCreated, cursor |-> lastDelivered, pel |-> pel],
    [reply |-> "OK", group |-> TRUE, cursor |-> 0, pel |-> {}] }

XGroupCreate ==
  { [reply |-> "error", group |-> groupCreated, cursor |-> lastDelivered, pel |-> pel] }
  \cup (IF groupCreated
        THEN { [reply |-> "BUSYGROUP", group |-> TRUE, cursor |-> lastDelivered,
                pel |-> pel] }
        ELSE { [reply |-> "OK", group |-> TRUE, cursor |-> 0, pel |-> {}] })

\* ensurePortfolioRefreshConsumerGroup: false without a client; true when
\* the group was created or the error says BUSYGROUP; any other error is
\* thrown again.
ensurePortfolioRefreshConsumerGroup ==
  IF ~redisUrl
  THEN { [ret |-> "false", reply |-> "none", group |-> groupCreated,
          cursor |-> lastDelivered, pel |-> pel] }
  ELSE { [ret |-> IF x.reply = "error" THEN "raised" ELSE "true",
          reply |-> x.reply, group |-> x.group, cursor |-> x.cursor, pel |-> x.pel]
         : x \in XGroupCreate }

\* startPortfolioQueueWorker (queueWorker.ts:22-30, 91-101): without a client
\* the worker is skipped before anything is called; otherwise the group is
\* ensured and processBatch starts, and an error thrown by the ensure is
\* caught and logged, which leaves the worker unstarted.
StartPortfolioQueueWorker ==
  /\ wpc = "init"
  /\ \/ /\ ~redisUrl
        /\ wpc' = "off"
        /\ scheduled' = scheduled
        /\ last' = [op |-> "start", ensure |-> "skipped", reply |-> "none"]
        /\ UNCHANGED <<groupCreated, lastDelivered, pel>>
     \/ /\ redisUrl
        /\ \E e \in ensurePortfolioRefreshConsumerGroup :
             /\ groupCreated' = e.group
             /\ lastDelivered' = e.cursor
             /\ pel' = e.pel
             /\ wpc' = IF e.ret = "raised" THEN "off" ELSE "ready"
             \* processBatch() is called once after the group is ensured
             /\ scheduled' = IF e.ret = "raised" THEN scheduled ELSE scheduled + 1
             /\ last' = [op |-> "start", ensure |-> e.ret, reply |-> e.reply]
  /\ UNCHANGED <<redisUrl, refreshing, quoteCache, portfolioCache, db, clock, stream,
                 acked, deliveries, wbatch, posts>>

\* processBatch up to the loop (queueWorker.ts:31-43).
ProcessBatchRead ==
  /\ wpc = "ready"
  /\ \/ \* XREADGROUP rejects: outer catch, retry in 5 s
        /\ wpc' = "backoff"
        /\ scheduled' = scheduled - 1 + 1     \* returns; setTimeout(processBatch, 5000)
        /\ last' = [op |-> "read"]
        /\ UNCHANGED <<lastDelivered, pel, deliveries, wbatch>>
     \/ LET messages == NewEntries(BATCH_SIZE)
            ids == { messages[i].streamId : i \in 1..Len(messages) }
        IN  /\ lastDelivered' = lastDelivered + Len(messages)
            /\ pel' = pel \cup ids
            /\ deliveries' = [i \in DOMAIN deliveries |->
                                IF i \in ids THEN deliveries[i] + 1 ELSE deliveries[i]]
            /\ last' = [op |-> "read"]
            /\ \/ /\ Len(messages) = 0          \* setImmediate(processBatch); return
                  /\ scheduled' = scheduled - 1 + 1
                  /\ UNCHANGED <<wpc, wbatch>>
               \/ /\ Len(messages) > 0          \* goes on to the loop
                  /\ wpc' = "processing"
                  /\ UNCHANGED scheduled
                  /\ wbatch' = messages
               \/ /\ Len(messages) > 0          \* import("db/client") rejects
                  /\ wpc' = "backoff"
                  /\ scheduled' = scheduled - 1 + 1
                  /\ UNCHANGED wbatch
  /\ UNCHANGED <<redisUrl, refreshing, quoteCache, portfolioCache, db, clock, stream,
                 groupCreated, acked, posts>>

Processed(m, how, built, w) ==
  [op |-> "message", streamId |-> m.streamId, how |-> how, pcWrite |-> w]

\* A catch whose retry is scheduled while a successor of the invocation is
\* scheduled already.
CatchAck_SchedulesTwice(m, how, built, w) ==
  \/ /\ XAck({m.streamId})
     /\ wbatch' = Tail(wbatch)
     /\ wpc' = IF Len(wbatch) = 1 THEN "delay" ELSE "processing"
     /\ scheduled' = IF Len(wbatch) = 1 THEN scheduled - 1 + 1 ELSE scheduled
     /\ last' = Processed(m, how, built, w)
  \/ /\ UNCHANGED <<pel, acked>>
     /\ wbatch' = <<>>
     /\ wpc' = "backoff"
     /\ scheduled' = scheduled + 1
     /\ last' = Processed(m, "abandoned", built, w)

\* The catch of one message (queueWorker.ts:74-77): acknowledge; when that
\* rejects too the outer catch abandons the rest of the batch.
CatchAck(m, how, built, w) ==
  \/ /\ XAck({m.streamId})
     /\ wbatch' = Tail(wbatch)
     /\ wpc' = IF Len(wbatch) = 1 THEN "delay" ELSE "processing"
     /\ scheduled' = IF Len(wbatch) = 1 THEN scheduled - 1 + 1 ELSE scheduled
     /\ last' = Processed(m, how, built, w)
  \/ /\ UNCHANGED <<pel, acked>>
     /\ wbatch' = <<>>
     /\ wpc' = "backoff"
     /\ scheduled' = scheduled - 1 + 1       \* setTimeout(processBatch, 5000)
     /\ last' = Processed(m, "abandoned", built, w)

\* An acknowledge after which the next processBatch is scheduled at once
\* when the batch is over, without the delay between batches.
TryAck_NoDelay(m, how, built, w) ==
  \/ /\ XAck({m.streamId})
     /\ wbatch' = Tail(wbatch)
     /\ wpc' = IF Len(wbatch) = 1 THEN "ready" ELSE "processing"
     /\ scheduled' = IF Len(wbatch) = 1 THEN scheduled - 1 + 1 ELSE scheduled
     /\ last' = Processed(m, how, built, w)
  \/ CatchAck(m, "failed", built, w)

\* The acknowledge inside the try (queueWorker.ts:55, 73): when it rejects,
\* the catch acknowledges again.
TryAck(m, how, built, w) ==
  \/ /\ XAck({m.streamId})
     /\ wbatch' = Tail(wbatch)
     /\ wpc' = IF Len(wbatch) = 1 THEN "delay" ELSE "processing"
     /\ scheduled' = IF Len(wbatch) = 1 THEN scheduled - 1 + 1 ELSE scheduled
     /\ last' = Processed(m, how, built, w)
  \/ CatchAck(m, "failed", built, w)

\* The document the worker hands to setPortfolioEnrichedCache after loading
\* the user: none when the build rejected (the catch, queueWorker.ts:74-77),
\* the payload (60-61), or the empty snapshot when the build returned null
\* (62-71).
WorkerStores(userId, b, cachedAt) ==
  IF b.raised THEN None
  ELSE IF b.payload # None THEN b.payload
  ELSE Some(Snapshot(userId, <<>>, 0, cachedAt))

\* One iteration of the loop over the batch (queueWorker.ts:45-78).
ProcessMessage ==
  /\ wpc = "processing"
  /\ wbatch # <<>>
  /\ LET m == Head(wbatch) IN
     \/ \* findUnique rejects
        /\ CatchAck(m, "failed", FALSE, "none")
        /\ UNCHANGED <<quoteCache, portfolioCache, clock>>
     \/ \* the user no longer exists: acknowledge and continue
        /\ db[m.userId] = None
        /\ TryAck(m, "skipped", FALSE, "none")
        /\ UNCHANGED <<quoteCache, portfolioCache, clock>>
     \/ \* rebuild and overwrite the cache
        /\ db[m.userId] # None
        /\ clock < MaxClock
        /\ clock' = clock + 1
        /\ \E b \in buildEnrichedPortfolio(m.userId, StocksOf(Val(db[m.userId])),
                                           quoteCache, clock') :
             /\ quoteCache' = b.qc
             /\ IF WorkerStores(m.userId, b, clock') = None
                THEN /\ CatchAck(m, "failed", FALSE, "none")
                     /\ UNCHANGED portfolioCache
                ELSE LET data == Val(WorkerStores(m.userId, b, clock'))
                     IN \E w \in SetPortfolioEnrichedCache(m.userId, data) :
                          /\ portfolioCache' = w.pc
                          /\ IF w.threw THEN CatchAck(m, "failed", TRUE, w.w)
                             ELSE TryAck(m, "done", TRUE, w.w)
  /\ UNCHANGED <<redisUrl, refreshing, db, stream, groupCreated, lastDelivered, deliveries, posts>>

\* Only the timer set after a completed batch fires: the 5 s retry of the
\* outer catch is never scheduled.
WorkerTimer_DelayOnly ==
  /\ wpc = "delay"
  /\ wpc' = "ready"
  /\ UNCHANGED scheduled
  /\ last' = [op |-> "timer"]
  /\ UNCHANGED <<redisUrl, refreshing, quoteCache, portfolioCache, db, clock, stream,
                 groupCreated, lastDelivered, pel, acked, deliveries, wbatch, posts>>

\* A timer that starts processBatch although the worker was never started.
WorkerTimer_FromOff ==
  /\ wpc \in {"off", "delay", "backoff"}
  /\ wpc' = "ready"
  /\ UNCHANGED scheduled
  /\ last' = [op |-> "timer"]
  /\ UNCHANGED <<redisUrl, refreshing, quoteCache, portfolioCache, db, clock, stream,
                 groupCreated, lastDelivered, pel, acked, deliveries, wbatch, posts>>

\* setTimeout(processBatch, ...) fires (queueWorker.ts:81, 87).
WorkerTimer ==
  /\ wpc \in {"delay", "backoff"}
  /\ wpc' = "ready"
  /\ UNCHANGED scheduled
  /\ last' = [op |-> "timer"]
  /\ UNCHANGED <<redisUrl, refreshing, quoteCache, portfolioCache, db, clock, stream,
                 groupCreated, lastDelivered, pel, acked, deliveries, wbatch, posts>>

\* The ws-server process is restarted between batches; Redis keeps its data.
RestartWsServer ==
  /\ wpc \in {"off", "ready", "delay", "backoff"}
  /\ wpc' = "init"
  /\ scheduled' = 0
  /\ wbatch' = <<>>
  /\ last' = [op |-> "restart"]
  /\ UNCHANGED <<redisUrl, refreshing, quoteCache, portfolioCache, db, clock, stream,
                 groupCreated, lastDelivered, pel, acked, deliveries, posts>>

\* A second process of the ws-server runs the same worker against the same
\* group: one readPortfolioRefreshBatch of its processBatch, together with
\* the acknowledgements it sends for that batch afterwards; the entries it
\* abandons (kept) stay in the pending list.
PeerProcessBatch ==
  /\ redisUrl
  /\ groupCreated
  /\ LET messages == NewEntries(BATCH_SIZE)
         ids == { messages[i].streamId : i \in 1..Len(messages) }
     IN  /\ Len(messages) > 0
         /\ lastDelivered' = lastDelivered + Len(messages)
         /\ deliveries' = [i \in DOMAIN deliveries |->
                             IF i \in ids THEN deliveries[i] + 1 ELSE deliveries[i]]
         /\ \E kept \in SUBSET ids :
              /\ pel' = pel \cup kept
              /\ acked' = acked \cup (ids \ kept)
              /\ last' = [op |-> "peer", kept |-> kept]
  /\ UNCHANGED <<redisUrl, refreshing, quoteCache, portfolioCache, db, clock, stream,
                 groupCreated, wpc, scheduled, wbatch, posts>>

\* -------------------------------------------------- POST /refresh-portfolio
\* The bodies a client can post: text that is not JSON, JSON without a
\* userId, with a userId that is not a string, with the empty string, and
\* {userId} for each user.
JsonBody(userId) == [json |-> TRUE, type |-> "string", userId |-> userId]

RequestBodies ==
  { [json |-> FALSE, type |-> "undefined", userId |-> ""],
    [json |-> TRUE, type |-> "undefined", userId |-> ""],
    [json |-> TRUE, type |-> "number", userId |-> "42"],
    JsonBody("") }
  \cup { JsonBody(u) : u \in Users }

\* The response of the handler and, for 202, the id of the appended entry.
Response(status, error, userId, messageId) ==
  [op |-> "post", status |-> status, error |-> error, userId |-> userId,
   messageId |-> messageId]

\* A handler that queues the request although the body has no usable userId.
RefreshPortfolio_QueuesBadBody(body) ==
  \E p \in PushPortfolioRefreshToStream(stream, body.userId) :
    /\ stream' = p.stream
    /\ last' = IF p.threw THEN Response(500, "Internal server error", body.userId, None)
               ELSE IF p.id = None
               THEN Response(503, "Redis unavailable", body.userId, None)
               ELSE Response(202, "", body.userId, p.id)

\* The handler of ws-server index.ts:13-58.
RefreshPortfolio(body) ==
  IF ~body.json
  THEN /\ last' = Response(400, "Invalid JSON body", "", None)
       /\ UNCHANGED stream
  ELSE IF body.userId = "" \/ body.type # "string"
  THEN /\ last' = Response(400, "userId required", "", None)
       /\ UNCHANGED stream
  ELSE \E p \in PushPortfolioRefreshToStream(stream, body.userId) :
         /\ stream' = p.stream
         /\ last' = IF p.threw
                    THEN Response(500, "Internal server error", body.userId, None)
                    ELSE IF p.id = None
                    THEN Response(503, "Redis unavailable", body.userId, None)
                    ELSE Response(202, "", body.userId, p.id)

\* The request the Serving Path sent without awaiting it arrives, or is lost.
DeliverRefresh(userId) ==
  /\ posts[userId] > 0
  /\ posts' = [posts EXCEPT ![userId] = @ - 1]
  /\ \/ /\ last' = [op |-> "post", status |-> 0]
        /\ UNCHANGED stream
     \/ RefreshPortfolio(JsonBody(userId))
  /\ UNCHANGED <<redisUrl, refreshing, quoteCache, portfolioCache, db, clock, groupCreated,
                 lastDelivered, pel, acked, deliveries, wpc, scheduled, wbatch>>

\* Any other client of the unauthenticated endpoint posts a body.
PostRefreshPortfolio(body) ==
  /\ RefreshPortfolio(body)
  /\ UNCHANGED <<redisUrl, refreshing, quoteCache, portfolioCache, db, clock, groupCreated,
                 lastDelivered, pel, acked, deliveries, wpc, scheduled, wbatch, posts>>

\* --------------------------------------------------------------- scheduler
\* Only the users whose portfolio has at least one stock row.
UsersWithPortfolio_Holdings ==
  { u \in Users : db[u] # None /\ Len(StocksOf(Val(db[u]))) > 0 }

\* The users findMany returns: those with a portfolio row.
UsersWithPortfolio == { u \in Users : db[u] # None /\ Val(db[u]).portfolio # None }

Orders(S) == { o \in [1..Cardinality(S) -> S] : \A i, j \in DOMAIN o : o[i] = o[j] => i = j }

\* What one tick did, and what the tick before it did when no other
\* operation ran in between.
Tick(how) ==
  [op |-> "tick", how |-> how,
   after |-> IF last.op = "tick" THEN last.how ELSE "other"]

\* A tick that pushes the first user it knows of although the store failed.
SchedulerTick_PushesOnFailure ==
  /\ redisUrl
  /\ Len(stream) < MaxStream
  /\ stream' = Append(stream, "u1")
  /\ last' = Tick("dbfail")
  /\ UNCHANGED <<redisUrl, refreshing, quoteCache, portfolioCache, db, clock, groupCreated,
                 lastDelivered, pel, acked, deliveries, wpc, scheduled, wbatch, posts>>

\* A tick that rebuilds by itself and writes the snapshot of every user with
\* a portfolio to the Portfolio Cache instead of pushing to the stream.
SchedulerTick_WritesCache ==
  /\ redisUrl
  /\ portfolioCache' = [u \in Users |->
                          IF db[u] # None /\ Val(db[u]).portfolio # None
                          THEN Some(Snapshot(u, FallbackStocks(StocksOf(Val(db[u]))),
                                             SumInvestment(StocksOf(Val(db[u]))), clock))
                          ELSE portfolioCache[u]]
  /\ last' = Tick("pushed")
  /\ UNCHANGED <<redisUrl, refreshing, quoteCache, db, clock, stream, groupCreated,
                 lastDelivered, pel, acked, deliveries, wpc, scheduled, wbatch, posts>>

\* One tick of refresh() (refreshJob.ts:20-58): the job runs only with a
\* client; a failure of the db import or of findMany skips the tick; the
\* users are pushed one after another and a rejected push ends the tick.
SchedulerTick ==
  /\ redisUrl
  /\ \/ /\ last' = Tick("dbfail")
        /\ UNCHANGED stream
     \/ \E users \in Orders(UsersWithPortfolio) : \E k \in 0..Len(users) :
          /\ Len(stream) + k <= MaxStream
          /\ stream' = stream \o SubSeq(users, 1, k)
          /\ last' = Tick(IF k = Len(users) THEN "pushed" ELSE "pushfail")
  /\ UNCHANGED <<redisUrl, refreshing, quoteCache, portfolioCache, db, clock, groupCreated,
                 lastDelivered, pel, acked, deliveries, wpc, scheduled, wbatch, posts>>

\* ---------------------------------------------------------------- holdings
\* POST /stocks (stocks.ts:26-101): the portfolio row is created when the
\* user has none and a stock row is added to it, or the store raises and the
\* answer is 400; the Portfolio Cache is not touched. The exploration lets
\* the holdings change only while a rebuild can still follow within its
\* bounds.
PostStock(userId) ==
  /\ db[userId] # None
  /\ Len(StocksOf(Val(db[userId]))) < MaxHoldings
  /\ clock < MaxClock /\ Len(stream) < MaxStream
  /\ \/ /\ db' = [db EXCEPT ![userId] =
                     Some([portfolio |-> Some(Append(StocksOf(Val(db[userId])), StockTCS))])]
        /\ last' = [op |-> "postStock", user |-> userId, status |-> 201]
     \/ /\ UNCHANGED db
        /\ last' = [op |-> "postStock", user |-> userId, status |-> 400]
  /\ UNCHANGED <<redisUrl, refreshing, quoteCache, portfolioCache, clock, stream,
                 groupCreated, lastDelivered, pel, acked, deliveries, wpc,
                 scheduled, wbatch, posts>>

\* DELETE /stocks with symbols (stocks.ts:103-139): without a portfolio
\* nothing is deleted; otherwise deleteMany removes the rows of the named
\* symbols, or the store raises and the answer is 500; the Portfolio Cache is
\* not touched.
DeleteStocks(userId, symbols) ==
  /\ db[userId] # None
  /\ clock < MaxClock /\ Len(stream) < MaxStream
  /\ \/ /\ Val(db[userId]).portfolio # None
        /\ db' = [db EXCEPT ![userId] =
                     Some([portfolio |->
                       Some(SelectSeq(StocksOf(Val(db[userId])),
                                      LAMBDA st : st.symbol \notin symbols))])]
        /\ last' = [op |-> "deleteStocks", user |-> userId, status |-> 200]
     \/ /\ Val(db[userId]).portfolio = None
        /\ UNCHANGED db
        /\ last' = [op |-> "deleteStocks", user |-> userId, status |-> 200]
     \/ /\ UNCHANGED db
        /\ last' = [op |-> "deleteStocks", user |-> userId, status |-> 500]
  /\ UNCHANGED <<redisUrl, refreshing, quoteCache, portfolioCache, clock, stream,
                 groupCreated, lastDelivered, pel, acked, deliveries, wpc,
                 scheduled, wbatch, posts>>

\* The steps of refresh() one by one, for the runs that overlap.
\* RemoveAt: the run at position i has returned.
RemoveAt(seq, i) == SubSeq(seq, 1, i - 1) \o SubSeq(seq, i + 1, Len(seq))

\* A run of refresh() that is not started while another one is in flight.
RefreshStart_Exclusive ==
  /\ redisUrl
  /\ refreshing = <<>>
  /\ \/ /\ last' = [op |-> "refresh", how |-> "dbfail", users |-> <<>>]
        /\ UNCHANGED refreshing
     \/ \E users \in Orders(UsersWithPortfolio) :
          /\ refreshing' = IF users = <<>> THEN refreshing ELSE Append(refreshing, users)
          /\ last' = [op |-> "refresh", how |-> "started", users |-> users]
  /\ UNCHANGED <<redisUrl, quoteCache, portfolioCache, db, clock, stream,
                 groupCreated, lastDelivered, pel, acked, deliveries, wpc,
                 scheduled, wbatch, posts>>

\* refresh() is called (at the start of the job, then by setInterval whether
\* or not an earlier run has returned) and runs up to its loop
\* (refreshJob.ts:20-33, 60-61): the import of the db client or findMany
\* fails and the run returns, or the users with a portfolio are enumerated.
RefreshStart ==
  /\ redisUrl
  /\ Len(refreshing) < MaxRefreshing
  /\ \/ /\ last' = [op |-> "refresh", how |-> "dbfail", users |-> <<>>]
        /\ UNCHANGED refreshing
     \/ \E users \in Orders(UsersWithPortfolio) :
          /\ refreshing' = IF users = <<>> THEN refreshing ELSE Append(refreshing, users)
          /\ last' = [op |-> "refresh", how |-> "started", users |-> users]
  /\ UNCHANGED <<redisUrl, quoteCache, portfolioCache, db, clock, stream,
                 groupCreated, lastDelivered, pel, acked, deliveries, wpc,
                 scheduled, wbatch, posts>>

\* One iteration of the loop of the run at position i (refreshJob.ts:35-37):
\* the push of the next user is awaited; when it rejects the catch ends the
\* run with the users after it not pushed.
RefreshPush(i) ==
  /\ i \in 1..Len(refreshing)
  /\ LET todo == refreshing[i] IN
     \E p \in PushPortfolioRefreshToStream(stream, Head(todo)) :
       /\ stream' = p.stream
       /\ refreshing' = IF p.threw \/ Len(todo) = 1 THEN RemoveAt(refreshing, i)
                        ELSE [refreshing EXCEPT ![i] = Tail(todo)]
       /\ last' = [op |-> "push", how |-> IF p.threw THEN "threw" ELSE "pushed",
                   run |-> i, user |-> Head(todo), left |-> Tail(todo)]
  /\ UNCHANGED <<redisUrl, quoteCache, portfolioCache, db, clock, groupCreated,
                 lastDelivered, pel, acked, deliveries, wpc, scheduled, wbatch, posts>>

\* ------------------------------------------------------------- TTL expiry
ExpirePortfolio(userId) ==
  /\ portfolioCache[userId] # None
  /\ portfolioCache' = [portfolioCache EXCEPT ![userId] = None]
  /\ last' = [op |-> "expire"]
  /\ UNCHANGED <<redisUrl, refreshing, quoteCache, db, clock, stream, groupCreated,
                 lastDelivered, pel, acked, deliveries, wpc, scheduled, wbatch, posts>>

ExpireQuote(key) ==
  /\ quoteCache[key] # None
  /\ quoteCache' = [quoteCache EXCEPT ![key] = None]
  /\ last' = [op |-> "expire"]
  /\ UNCHANGED <<redisUrl, refreshing, portfolioCache, db, clock, stream, groupCreated,
                 lastDelivered, pel, acked, deliveries, wpc, scheduled, wbatch, posts>>

\* ------------------------------------------------- one call of fetchQuote
FetchQuoteCall(symbol) ==
  \E f \in fetchQuote(quoteCache, symbol) :
    /\ quoteCache' = f.qc
    /\ last' = [op |-> "fetchQuote", symbol |-> symbol, before |-> quoteCache,
                raised |-> f.raised, out |-> f.out, rd |-> f.rd, wr |-> f.wr,
                net |-> f.net, a |-> f.a, b |-> f.b, c |-> f.c, bp |-> f.bp]
    /\ UNCHANGED <<redisUrl, refreshing, portfolioCache, db, clock, stream, groupCreated,
                   lastDelivered, pel, acked, deliveries, wpc, scheduled, wbatch, posts>>

\* ------------------------------------------- the arithmetic of one rebuild
\* Portfolios for the arithmetic: n equal rows, n rows without investment, n
\* equal rows and a larger one, one row of 3500.00 x 10, and rows whose
\* amounts carry a third decimal.
LineStock(price, qty, investment) ==
  [symbol |-> "TCS", purchasedPrice |-> price, purchasedQuantity |-> qty,
   investment |-> investment]

EqualLines(n, s) == [i \in 1..n |-> s]

LinePortfolios ==
  { EqualLines(n, LineStock(10000, 2, 20000)) : n \in 1..MaxLines }
  \cup { EqualLines(n, LineStock(0, 2, 0)) : n \in 1..MaxLines }
  \cup { EqualLines(n, LineStock(10000, 1, 10000)) \o <<LineStock(10000, 7, 70000)>>
          : n \in 1..(MaxLines - 1) }
  \cup { <<LineStock(3500000, 10, 35000000)>>,
         <<LineStock(3333, 3, 10006), LineStock(3335, 1, 3333)>> }

LineQuotes ==
  { NullQuote,
    [NullQuote EXCEPT !.cmp = Some(3800000)],
    [NullQuote EXCEPT !.cmp = Some(11005), !.peRatio = Some(20)] }

\* The rows of one rebuild of the user's snapshot: by buildEnrichedPortfolio
\* from the quote fetchQuote returned, or by the DB-only fallback.
BuildLines(userId) ==
  /\ db[userId] # None
  /\ Len(StocksOf(Val(db[userId]))) > 0
  /\ LET stocks == StocksOf(Val(db[userId])) IN
     \/ \E q \in LineQuotes :
          last' = [op |-> "lines", user |-> userId, path |-> "built", quote |-> q,
                   stocks |-> EnrichedLines(stocks, q),
                   totalInvestment |-> SumInvestment(stocks)]
     \/ last' = [op |-> "lines", user |-> userId, path |-> "fallback",
                 quote |-> NullQuote, stocks |-> FallbackStocks(stocks),
                 totalInvestment |-> SumInvestment(stocks)]
  /\ UNCHANGED <<redisUrl, refreshing, quoteCache, portfolioCache, db, clock, stream,
                 groupCreated, lastDelivered, pel, acked, deliveries, wpc, scheduled,
                 wbatch, posts>>

\* ------------------------------------------------------------------- spec
Init ==
  /\ redisUrl \in BOOLEAN
  /\ quoteCache = [k \in QuoteKeys |-> None]
  /\ portfolioCache = [u \in Users |-> None]
  /\ db \in DbConfigs
  /\ clock = 0
  /\ stream = <<>>
  /\ groupCreated = FALSE
  /\ lastDelivered = 0
  /\ pel = {}
  /\ acked = {}
  /\ deliveries = [i \in 1..MaxStream |-> 0]
  /\ wpc = "init"
  /\ scheduled = 0
  /\ refreshing = <<>>
  /\ wbatch = <<>>
  /\ posts = [u \in Users |-> 0]
  /\ last = [op |-> "init"]

\* The arithmetic of a rebuild over portfolios of up to MaxLines rows.
InitLines ==
  /\ redisUrl \in BOOLEAN
  /\ quoteCache = [k \in QuoteKeys |-> None]
  /\ portfolioCache = [u \in Users |-> None]
  /\ db \in { [u1 |-> Some([portfolio |-> Some(p)]),
                u2 |-> Some([portfolio |-> Some(<<>>)]),
                u3 |-> None] : p \in LinePortfolios }
  /\ clock = 0
  /\ stream = <<>>
  /\ groupCreated = FALSE
  /\ lastDelivered = 0
  /\ pel = {}
  /\ acked = {}
  /\ deliveries = [i \in 1..MaxStream |-> 0]
  /\ wpc = "init"
  /\ scheduled = 0
  /\ refreshing = <<>>
  /\ wbatch = <<>>
  /\ posts = [u \in Users |-> 0]
  /\ last = [op |-> "init"]

NextLines == \E u \in Users : BuildLines(u)

SpecLines == InitLines /\ [][NextLines]_vars

\* Quote Fetcher alone.
NextQuote ==
  \/ \E s \in Symbols : FetchQuoteCall(s)
  \/ \E k \in QuoteKeys : ExpireQuote(k)

SpecQuote == Init /\ [][NextQuote]_vars

\* Serving Path with both caches.
NextServe ==
  \/ \E u \in Users : GetOrBuild(u)
  \/ \E u \in Users : DeliverRefresh(u)
  \/ \E u \in Users : ExpirePortfolio(u)
  \/ \E k \in QuoteKeys : ExpireQuote(k)

SpecServe == Init /\ [][NextServe]_vars

\* Refresh Queue, Queue Worker and Scheduler.
NextQueue ==
  \/ StartPortfolioQueueWorker
  \/ ProcessBatchRead
  \/ ProcessMessage
  \/ WorkerTimer
  \/ RestartWsServer
  \/ SchedulerTick
  \/ \E body \in RequestBodies : PostRefreshPortfolio(body)

SpecQueue == Init /\ [][NextQueue]_vars

\* The event loop runs every callback it has scheduled: the start of the
\* worker, each processBatch, each iteration over the batch, each timer.
FairSpecQueue ==
  /\ SpecQueue
  /\ WF_vars(StartPortfolioQueueWorker)
  /\ WF_vars(ProcessBatchRead)
  /\ WF_vars(ProcessMessage)
  /\ WF_vars(WorkerTimer)

\* The consumer group read by two processes of the worker.
NextGroup ==
  \/ StartPortfolioQueueWorker
  \/ ProcessBatchRead
  \/ ProcessMessage
  \/ WorkerTimer
  \/ PeerProcessBatch
  \/ \E body \in RequestBodies : PostRefreshPortfolio(body)

SpecGroup == Init /\ [][NextGroup]_vars

\* Serving Path and Queue Worker rebuilding the snapshots of the users the
\* store knows (for any other user nothing is built).
StoredUsers == { u \in Users : db[u] # None }

NextRebuild ==
  \/ \E u \in StoredUsers : GetOrBuild(u)
  \/ \E u \in StoredUsers : DeliverRefresh(u)
  \/ \E u \in StoredUsers : ExpirePortfolio(u)
  \/ StartPortfolioQueueWorker
  \/ ProcessBatchRead
  \/ ProcessMessage
  \/ WorkerTimer

SpecRebuild == Init /\ [][NextRebuild]_vars

\* The worker started on a stream that already holds a backlog of
\* MaxBacklog entries, more than one batch.
BacklogStreams ==
  { [i \in 1..MaxBacklog |-> u] : u \in Users }
  \cup { [i \in 1..MaxBacklog |->
            IF i % 3 = 1 THEN "u1" ELSE IF i % 3 = 2 THEN "u3" ELSE "u2"] }

InitBacklog ==
  /\ redisUrl \in BOOLEAN
  /\ quoteCache = [k \in QuoteKeys |-> None]
  /\ portfolioCache = [u \in Users |-> None]
  /\ db \in DbConfigs
  /\ clock = 0
  /\ stream \in BacklogStreams
  /\ groupCreated = FALSE
  /\ lastDelivered = 0
  /\ pel = {}
  /\ acked = {}
  /\ deliveries = [i \in 1..MaxBacklog |-> 0]
  /\ wpc = "init"
  /\ scheduled = 0
  /\ refreshing = <<>>
  /\ wbatch = <<>>
  /\ posts = [u \in Users |-> 0]
  /\ last = [op |-> "init"]

NextBacklog ==
  \/ StartPortfolioQueueWorker
  \/ ProcessBatchRead
  \/ ProcessMessage
  \/ WorkerTimer

SpecBacklog == InitBacklog /\ [][NextBacklog]_vars

\* The Scheduler step by step: runs of refresh() that may overlap.
NextRefresh ==
  \/ RefreshStart
  \/ \E i \in 1..MaxRefreshing : RefreshPush(i)

SpecRefresh == Init /\ [][NextRefresh]_vars

\* The holdings of one user changing while the stores answer every command:
\* the Serving Path, the Scheduler and the Queue Worker in the runs in which
\* no command of the cache, the stream or the persistent store raises.
InitHoldings ==
  /\ redisUrl = TRUE
  /\ quoteCache = [k \in QuoteKeys |-> None]
  /\ portfolioCache = [u \in Users |-> None]
  /\ db = [u \in Users |-> IF u = "u1" THEN Some([portfolio |-> Some(<<StockTCS>>)])
                            ELSE None]
  /\ clock = 0
  /\ stream = <<>>
  /\ groupCreated = FALSE
  /\ lastDelivered = 0
  /\ pel = {}
  /\ acked = {}
  /\ deliveries = [i \in 1..MaxStream |-> 0]
  /\ wpc = "init"
  /\ scheduled = 0
  /\ refreshing = <<>>
  /\ wbatch = <<>>
  /\ posts = [u \in Users |-> 0]
  /\ last = [op |-> "init"]

StartedWorker == StartPortfolioQueueWorker /\ wpc' = "ready"
BatchRead == ProcessBatchRead /\ wpc' # "backoff"
MessageDone == ProcessMessage /\ last'.how = "done"
TickPushed == SchedulerTick /\ last'.how = "pushed"

NextHoldings ==
  \/ PostStock("u1")
  \/ DeleteStocks("u1", Symbols)
  \/ GetOrBuild("u1") /\ last'.pcWrite # "threw"
  \/ DeliverRefresh("u1")
  \/ StartedWorker
  \/ BatchRead
  \/ MessageDone
  \/ WorkerTimer
  \/ TickPushed

SpecHoldings == InitHoldings /\ [][NextHoldings]_vars

\* The event loop runs the worker's callbacks and the interval timer of the
\* Scheduler keeps firing.
FairSpecHoldings ==
  /\ SpecHoldings
  /\ WF_vars(StartedWorker)
  /\ WF_vars(BatchRead)
  /\ WF_vars(MessageDone)
  /\ WF_vars(WorkerTimer)
  /\ WF_vars(TickPushed)

Next ==
  \/ NextServe
  \/ NextQueue

Spec == Init /\ [][Next]_vars

\* ================================================================ claims
StreamIds == 1..MaxStream

\* C1: within the one consumer group every entry of the stream that a batch
\* read has reached was returned by exactly one read and no entry beyond the
\* group's cursor by any; a read never returns an entry a second time, and in
\* particular never an acknowledged one.
C1_DeliveredOnce ==
  [][ /\ \A id \in StreamIds :
           deliveries'[id] = IF id <= lastDelivered' THEN 1 ELSE 0
      /\ \A id \in acked : deliveries'[id] = deliveries[id] /\ id \notin pel' ]_vars

\* C1 witness: an entry was delivered once and acknowledged, and the last
\* operation was a later batch read that delivered the entry after it.
C1_Witness ==
  /\ last.op = "read"
  /\ 1 \in acked /\ deliveries[1] = 1
  /\ 2 \in pel /\ deliveries[2] = 1

\* C2: an entry that was delivered and is not acknowledged is eventually
\* acknowledged or returned again by a batch read of the worker.
C2_Redelivered ==
  \A id \in StreamIds :
    (id \in pel) ~> (id \in acked \/ deliveries[id] >= 2)

\* C3: once the worker has left the loop over a batch, no entry it has read
\* is pending: every entry read is acknowledged, whatever the rebuild did.
C3_BatchAcknowledged ==
  (wpc # "processing") => (pel = {})

\* C4: when a call of fetchQuote got Provider A's data, from A's cache entry
\* or from A's response, Providers B and C were not called and their cache
\* entries were neither read nor written.
C4_ASuccessLeavesBC ==
  (last.op = "fetchQuote" /\ last.a \in {"cache", "net"}) =>
    /\ last.b = "none" /\ last.c = "none"
    /\ last.net \subseteq {"nse"}
    /\ last.rd \subseteq {"nse"}
    /\ last.wr \subseteq {"nse"}
    /\ \A src \in {"yahoo", "google"} :
         quoteCache[<<last.symbol, src>>] = last.before[<<last.symbol, src>>]

\* C5: when Provider A failed and Provider B supplied a price, Provider C was
\* attempted; and when C then failed, the call returned B's price as cmp with
\* peRatio and latestEarnings null.
C5_BPriceThenC ==
  (/\ last.op = "fetchQuote"
   /\ last.a \in {"throw", "bad", "nofields"}
   /\ last.b \in {"cache", "net"}) =>
    /\ last.c # "none"
    /\ last.c \in {"throw", "nodata"} =>
         /\ ~last.raised
         /\ last.out.cmp = last.bp
         /\ last.out.peRatio = None
         /\ last.out.latestEarnings = None

\* C6: a call of fetchQuote never raises, whatever the providers and the
\* quote cache do, and returns all-null when all three providers failed.
C6_NeverRaises ==
  (last.op = "fetchQuote") =>
    /\ ~last.raised
    /\ (/\ last.a \in {"throw", "bad", "nofields"}
        /\ last.b \in {"none", "throw", "noprice"}
        /\ last.c \in {"none", "throw", "nodata"}) => last.out = NullQuote

\* The live predicate as the specification words it: a row is live when its
\* cmp differs from purchasePrice by more than 0.01 or its peRatio is positive.
SpecLiveRow(row) ==
  \/ row.cmp # None /\ Abs(Val(row.cmp) - row.purchasePrice) > 10
  \/ row.peRatio # None /\ Val(row.peRatio) > 0

SpecLive(body) == \E i \in 1..Len(body.stocks) : SpecLiveRow(body.stocks[i])

\* The live predicate with the guard the handler applies first: a row counts
\* only when it carries a positive cmp.
GuardedLiveRow(row) ==
  /\ row.cmp # None /\ Val(row.cmp) > 0
  /\ \/ Abs(Val(row.cmp) - row.purchasePrice) > 10
     \/ row.peRatio # None /\ Val(row.peRatio) > 0

GuardedLive(body) == \E i \in 1..Len(body.stocks) : GuardedLiveRow(body.stocks[i])

\* The handler read a snapshot from the Portfolio Cache.
ReadSnapshot == last.op = "getOrBuild" /\ last.cached # None

\* C7 as claimed: the handler answers from the cache exactly when some row of
\* the cached snapshot has a materially different cmp or a positive peRatio,
\* a row with a positive peRatio and no cmp included.
C7_SpecLiveDecides ==
  ReadSnapshot => ((last.path = "hit") <=> SpecLive(Val(last.cached)))

\* C7 amended: the handler answers from the cache exactly when some row of
\* the cached snapshot has a positive cmp and, in addition, a cmp materially
\* different from purchasePrice or a positive peRatio.
C7_GuardedLiveDecides ==
  ReadSnapshot => ((last.path = "hit") <=> GuardedLive(Val(last.cached)))

\* C7 witness: a cached snapshot whose only row has cmp equal to
\* purchasePrice and a positive peRatio was served from the cache.
C7_Witness ==
  /\ ReadSnapshot /\ last.path = "hit"
  /\ \E i \in 1..Len(Val(last.cached).stocks) :
       LET row == Val(last.cached).stocks[i] IN
       /\ row.cmp = Some(row.purchasePrice)
       /\ row.peRatio # None /\ Val(row.peRatio) > 0

\* C8: when the handler read a snapshot in which no row has a distinct cmp or
\* a positive peRatio, it did not answer from the cache although the entry
\* had not expired: it loaded the holdings, and when the load gave a user it
\* called fetchQuote once per holding, stamped a newer cachedAt and wrote the
\* new snapshot over the cache entry.
C8_StaleIsRebuilt ==
  (ReadSnapshot /\ ~SpecLive(Val(last.cached))) =>
    /\ last.path # "hit"
    /\ last.dbLoads = 1
    /\ last.path \in {"built", "fallback", "empty"} =>
         /\ last.fetches = Len(StocksOf(Val(db[last.user])))
         /\ Val(last.body).cachedAt > Val(last.cached).cachedAt
         /\ last.pcWrite \in {"ok", "threw"}
         /\ last.pcWrite = "ok" => portfolioCache[last.user] = last.body

\* C8 witness: an unexpired snapshot with a row but no live row was read, and
\* the handler built a new snapshot from fetched quotes and cached it.
C8_Witness ==
  /\ ReadSnapshot /\ ~SpecLive(Val(last.cached))
  /\ Len(Val(last.cached).stocks) > 0
  /\ last.path = "built" /\ last.fetches = 1 /\ last.pcWrite = "ok"
  /\ portfolioCache[last.user] = last.body

\* C9: a step in which the handler read a live snapshot answers 200 with that
\* snapshot and does nothing else: no load of the holdings, no fetchQuote and
\* so no provider or quote-cache call, no cache write, no refresh request.
C9_LiveHitTouchesNothing ==
  [][ (last'.op = "getOrBuild" /\ last'.cached # None
       /\ GuardedLive(Val(last'.cached))) =>
        /\ last'.path = "hit" /\ last'.status = 200
        /\ last'.body = last'.cached
        /\ last'.cached = portfolioCache[last'.user]
        /\ last'.dbLoads = 0 /\ last'.fetches = 0
        /\ last'.qrd = {} /\ last'.qwr = {} /\ last'.qnet = {}
        /\ last'.pcWrite = "none" /\ ~last'.enq
        /\ UNCHANGED <<portfolioCache, quoteCache, posts, stream, clock, db>> ]_vars

\* C9 witness: a user with holdings was answered from a live cached snapshot.
C9_Witness ==
  /\ ReadSnapshot /\ GuardedLive(Val(last.cached))
  /\ last.path = "hit" /\ last.body = last.cached
  /\ Len(StocksOf(Val(db[last.user]))) > 0

\* C10: when the handler read the cached snapshot {stocks: [], totalInvestment:
\* 0} of a user and answered with a snapshot, the answer is that cached
\* snapshot with its cachedAt, and nothing was loaded, fetched or rebuilt.
C10_EmptySnapshotServedFromCache ==
  (/\ ReadSnapshot
   /\ Val(last.cached).stocks = <<>> /\ Val(last.cached).totalInvestment = 0
   /\ last.status = 200) =>
    /\ last.body = last.cached
    /\ last.path = "hit"
    /\ last.dbLoads = 0 /\ last.fetches = 0

\* C11: when the read of the Portfolio Cache failed, every fetchQuote of the
\* build found the Quote Cache unreadable and the write of the snapshot failed
\* too, the request is still answered 200 with a snapshot built from what the
\* providers returned: the failed reads count as misses, so NSE was requested.
C11_CacheDownStillBuilds ==
  (/\ last.op = "getOrBuild" /\ last.readThrew
   /\ last.fetches > 0 /\ last.qdown
   /\ last.pcWrite = "threw") =>
    /\ last.status = 200 /\ last.body # None
    /\ last.path = "built"
    /\ "nse" \in last.qnet

\* C12: a request on the rebuild path answers 200 with its snapshot while the
\* refresh request is only in flight (the stream is as it was when the answer
\* is sent); and the later arrival or loss of that request, whatever its
\* status, leaves both caches, the store and the clock as they were.
C12_EnqueueAfterResponse ==
  [][ /\ (last'.op = "getOrBuild" /\ last'.path \in {"built", "fallback"}) =>
           /\ last'.status = 200 /\ last'.body # None
           /\ last'.enq
           /\ posts'[last'.user] = posts[last'.user] + 1
           /\ stream' = stream
      /\ (last'.op = "post" /\ posts' # posts) =>
           UNCHANGED <<portfolioCache, quoteCache, db, clock>> ]_vars

\* C12 witness: the refresh request of a rebuild was lost or refused (no 202)
\* and the snapshot the request had cached is still there.
C12_Witness ==
  /\ last.op = "post" /\ last.status # 202
  /\ stream = <<>>
  /\ \E u \in Users : portfolioCache[u] # None /\ Val(portfolioCache[u]).stocks # <<>>

C14_StoreFailureIsExplicit ==
  [][ (last'.op = "getOrBuild" /\ last'.path = "error") =>
        /\ last'.status = 500 /\ last'.body = None
        /\ last'.pcWrite = "none" /\ ~last'.enq /\ last'.fetches = 0
        /\ UNCHANGED <<portfolioCache, quoteCache, posts, stream>> ]_vars

\* C14 witness: the store failed for a user that has holdings and whose
\* cached snapshot was not live; the stale entry is what the cache still has.
C14_Witness ==
  /\ last.op = "getOrBuild" /\ last.path = "error" /\ last.status = 500
  /\ last.cached # None /\ portfolioCache[last.user] = last.cached
  /\ Len(StocksOf(Val(db[last.user]))) > 0

\* C15: whenever the worker is inside a batch, waiting between batches or
\* backing off after an exception (of the read, the db client load, the load
\* of the user, the rebuild, the cache write or the acknowledge), processBatch
\* is eventually ready to run again, unless the process itself is restarted.
C15_WorkerLoopContinues ==
  (wpc \in {"processing", "delay", "backoff"}) ~> (wpc \in {"ready", "init"})

\* C15 witness: the outer catch ran after a batch was read: the worker backs
\* off with messages of the batch still pending.
C15_Witness == wpc = "backoff" /\ pel # {} /\ wbatch = <<>>

\* C16: a tick in which the store failed changes nothing but the record of
\* the tick itself, in particular it appends nothing to the stream; and after
\* any tick the next tick can run.
C16_FailedTickSkipped ==
  /\ [][ (last'.op = "tick" /\ last'.how = "dbfail") =>
           UNCHANGED <<redisUrl, refreshing, quoteCache, portfolioCache, db, clock, stream,
                       groupCreated, lastDelivered, pel, acked, deliveries, wpc, scheduled,
                       wbatch, posts>> ]_vars
  /\ [](last.op = "tick" => ENABLED SchedulerTick)

\* C16 witness: the tick right after a tick in which the store failed pushed
\* every user it enumerated.
C16_Witness ==
  /\ last.op = "tick" /\ last.how = "pushed" /\ last.after = "dbfail"
  /\ Len(stream) = 2

IsRound2(y, x) == y % 10 = 0 /\ y - 5 <= x /\ x < y + 5

\* The rows of the store the last rebuild started from.
LineSource == StocksOf(Val(db[last.user]))

\* C19: every row of a rebuild (normal build or DB-only fallback) carries the
\* purchase price, quantity and investment of its row in the store,
\* presentValue = round2((cmp if present else purchasePrice) * quantity) and
\* gainLoss = round2(presentValue - investment); the row 3500.00 x 10 with
\* investment 35000.00 and cmp 3800.00 gets 38000.00, 3000.00 and 100.00 %.
C19_LineValues ==
  (last.op = "lines") =>
    /\ Len(last.stocks) = Len(LineSource)
    /\ \A i \in 1..Len(last.stocks) :
         LET row == last.stocks[i]
             src == LineSource[i]
             base == IF row.cmp # None THEN Val(row.cmp) ELSE row.purchasePrice
         IN  /\ row.purchasePrice = src.purchasedPrice
             /\ row.quantity = src.purchasedQuantity
             /\ row.investment = src.investment
             /\ row.cmp = IF last.path = "built" THEN last.quote.cmp
                          ELSE Some(src.purchasedPrice)
             /\ IsRound2(row.presentValue, base * row.quantity)
             /\ IsRound2(row.gainLoss, row.presentValue - row.investment)
             /\ (/\ row.purchasePrice = 3500000 /\ row.quantity = 10
                 /\ row.investment = 35000000 /\ row.cmp = Some(3800000)) =>
                  /\ row.presentValue = 38000000
                  /\ row.gainLoss = 3000000
                  /\ row.portfolioPercent = 10000

\* C19 witness: the row 3500.00 x 10 was built with cmp 3800.00.
C19_Witness ==
  /\ last.op = "lines" /\ last.path = "built"
  /\ last.stocks[1].cmp = Some(3800000)
  /\ last.stocks[1].presentValue = 38000000
  /\ last.stocks[1].gainLoss = 3000000

RECURSIVE SumPercent(_)
SumPercent(rows) ==
  IF rows = <<>> THEN 0 ELSE Head(rows).portfolioPercent + SumPercent(Tail(rows))

\* p is investment / totalInvestment * 100 rounded to two decimals.
IsPercent(p, investment, totalInvestment) ==
  IF investment = totalInvestment THEN p = 10000
  ELSE LET d == 2 * (p * totalInvestment - 10000 * investment)
       IN  -totalInvestment < d /\ d <= totalInvestment

\* Every row's share is the rounded quotient, or 0 without any investment.
PercentPerLine ==
  \A i \in 1..Len(last.stocks) :
    IF last.totalInvestment > 0
    THEN IsPercent(last.stocks[i].portfolioPercent, last.stocks[i].investment,
                   last.totalInvestment)
    ELSE last.stocks[i].portfolioPercent = 0

\* C20 as claimed: every row's portfolioPercent is the rounded share, 0 when
\* totalInvestment is 0, and with totalInvestment > 0 the shares of a
\* portfolio of any number of rows add up to 100 within 0.1.
C20_PercentSumWithinTenth ==
  (last.op = "lines") =>
    /\ PercentPerLine
    /\ last.totalInvestment > 0 => Abs(SumPercent(last.stocks) - 10000) <= 10

\* C20 amended: every row's portfolioPercent is the rounded share, 0 when
\* totalInvestment is 0, and with totalInvestment > 0 the shares add up to
\* 100 within 0.005 times the number of rows, hence within 0.1 for
\* portfolios of at most 20 rows.
C20_PercentSumWithinHalfCentPerLine ==
  (last.op = "lines") =>
    /\ PercentPerLine
    /\ last.totalInvestment > 0 =>
         /\ 2 * Abs(SumPercent(last.stocks) - 10000) <= Len(last.stocks)
         /\ Len(last.stocks) <= 20 => Abs(SumPercent(last.stocks) - 10000) <= 10

\* C20 witness: three equal rows of 33.33 % each add up to 99.99 %.
C20_Witness ==
  /\ last.op = "lines" /\ Len(last.stocks) = 3
  /\ last.totalInvestment > 0
  /\ SumPercent(last.stocks) = 9999


\* C21: within the consumer group an entry that was delivered and is not
\* acknowledged was returned by exactly one read: whichever of the two
\* processes reads, a read returns only entries that no read has returned
\* before, so no entry is ever returned to both.
C21_SingleOwner ==
  /\ [][ \A id \in StreamIds :
           deliveries'[id] # deliveries[id] =>
             /\ deliveries[id] = 0 /\ deliveries'[id] = 1
             /\ id \notin pel /\ id \notin acked ]_vars
  /\ [](\A id \in pel : deliveries[id] = 1)

\* C21 witness: the worker holds entry 1 of its batch unacknowledged while
\* the other process has just read entry 2 and left it pending.
C21_Witness ==
  /\ last.op = "peer" /\ last.kept = {2}
  /\ wpc = "processing" /\ Len(wbatch) = 1 /\ wbatch[1].streamId = 1
  /\ pel = {1, 2}
  /\ deliveries[1] = 1 /\ deliveries[2] = 1


\* C22: ensurePortfolioRefreshConsumerGroup is idempotent: called when the
\* group already exists it returns true without raising unless the command
\* failed for another reason than the group existing, and it leaves the
\* group, its delivery cursor and its pending list as they were; the worker
\* then starts reading.
C22_EnsureGroupIdempotent ==
  [][ (last'.op = "start" /\ last'.ensure # "skipped" /\ groupCreated) =>
        /\ last'.reply \in {"BUSYGROUP", "error"}
        /\ last'.ensure = (IF last'.reply = "BUSYGROUP" THEN "true" ELSE "raised")
        /\ groupCreated'
        /\ lastDelivered' = lastDelivered
        /\ pel' = pel
        /\ UNCHANGED <<acked, deliveries, stream>>
        /\ (last'.ensure = "true" => wpc' = "ready") ]_vars

\* C22 witness: the worker was started again while the group existed with
\* its cursor advanced and an entry pending; the call returned true.
C22_Witness ==
  /\ last.op = "start" /\ last.reply = "BUSYGROUP" /\ last.ensure = "true"
  /\ lastDelivered = 1 /\ pel = {1}
  /\ wpc = "ready"


C24_OneRequestPerWindow ==
  [][ (/\ redisUrl
       /\ last.op = "fetchQuote" /\ last'.op = "fetchQuote"
       /\ last'.symbol = last.symbol) =>
        last.net \cap last'.net = {} ]_vars


WholeSnapshot(s, u) ==
  LET stocks == StocksOf(Val(db[u]))
      total == SumInvestment(stocks)
  IN  /\ s.id = u
      /\ s.totalInvestment = total
      /\ Len(s.stocks) = Len(stocks)
      /\ \/ s.stocks = FallbackStocks(stocks)
         \/ \A i \in 1..Len(stocks) :
              s.stocks[i] = EnrichedStock(stocks[i],
                                          [NullQuote EXCEPT
                                             !.cmp = s.stocks[i].cmp,
                                             !.peRatio = s.stocks[i].peRatio,
                                             !.latestEarnings = s.stocks[i].latestEarnings],
                                          total)

C27_AFailedThenC ==
  (last.op = "fetchQuote" /\ ~last.raised /\ last.a \in {"throw", "bad"}) =>
    /\ last.c # "none"
    /\ "google" \in last.rd
    /\ last.c = "cache" =>
         /\ last.out.peRatio = Val(last.before[<<last.symbol, "google">>]).peRatio
         /\ last.out.latestEarnings =
              Val(last.before[<<last.symbol, "google">>]).latestEarnings

\* C28: every kind of failure of Provider A is handled the same: a request
\* that timed out or threw, a response that is not a 200 object, and a 200
\* object without lastPrice and previousClose each make fetchQuote go on to
\* Provider B.
C28_EveryAFailureFallsThrough ==
  (last.op = "fetchQuote" /\ last.a \in {"throw", "bad", "nofields"}) =>
    /\ last.b # "none"
    /\ "yahoo" \in last.rd


\* What each provider's entry must hold to have been worth writing, and
\* nothing of another provider: A a price or a previous close, B a price,
\* C a ratio or an earnings date.
UsableEntry(source, q) ==
  CASE source = "nse" -> (q.cmp # None \/ q.previousClose # None)
                          /\ q.latestEarnings = None
    [] source = "yahoo" -> q.cmp # None /\ q.peRatio = None /\ q.latestEarnings = None
    [] source = "google" -> (q.peRatio # None \/ q.latestEarnings # None)
                             /\ q.cmp = None /\ q.previousClose = None

\* What the provider of a source did in the call.
ProviderDid(call, source) ==
  CASE source = "nse" -> call.a
    [] source = "yahoo" -> call.b
    [] source = "google" -> call.c

\* C29: in a call of fetchQuote an entry of the quote cache changes only if
\* it is the entry of the symbol for a provider that got usable data over
\* the network, and it then holds that provider's data; a provider whose
\* fetch failed, came back empty or was answered from its cache writes
\* nothing, and a provider that was not consulted neither reads nor writes
\* its entry.
C29_ProvidersWriteOwnEntry ==
  [][ last'.op = "fetchQuote" =>
        /\ \A k \in QuoteKeys :
             quoteCache'[k] # quoteCache[k] =>
               /\ k[1] = last'.symbol
               /\ k[2] \in last'.wr
               /\ ProviderDid(last', k[2]) = "net"
               /\ quoteCache'[k] # None
               /\ UsableEntry(k[2], Val(quoteCache'[k]))
        /\ \A src \in Sources :
             /\ ProviderDid(last', src) # "net" => src \notin last'.wr
             /\ ProviderDid(last', src) # "net" => src \notin last'.net
                  \/ ProviderDid(last', src) \notin {"cache", "none", "rdthrow"}
             /\ ProviderDid(last', src) = "none" => src \notin last'.rd ]_vars

\* C29 witness: Provider A's request failed and wrote nothing, B and C got
\* data over the network and each wrote its own entry.
C29_Witness ==
  /\ last.op = "fetchQuote"
  /\ last.a = "throw" /\ last.b = "net" /\ last.c = "net"
  /\ last.wr = {"yahoo", "google"}
  /\ quoteCache[<<"TCS", "nse">>] = None
  /\ quoteCache[<<"TCS", "yahoo">>] # None
  /\ Val(quoteCache[<<"TCS", "yahoo">>]).cmp = Some(10000)
  /\ quoteCache[<<"TCS", "google">>] # None
  /\ Val(quoteCache[<<"TCS", "google">>]).peRatio = Some(25)


\* C30: every rebuild of the handler that loaded the user's holdings, with
\* quotes, with all-null quotes, by the DB-only fallback or with no holdings
\* at all, answers 200 with its snapshot after handing that snapshot to the
\* Portfolio Cache: the write is a no-op only without a client, and unless
\* the store rejected it the cache holds the snapshot that was answered.
C30_RebuildWritesSnapshot ==
  (last.op = "getOrBuild" /\ last.path \in {"empty", "built", "fallback"}) =>
    /\ last.status = 200
    /\ last.body # None
    /\ last.pcWrite \in {"ok", "threw", "noclient"}
    /\ (last.pcWrite = "noclient") <=> ~redisUrl
    /\ last.pcWrite = "ok" => portfolioCache[last.user] = last.body

\* C30 witness: every provider failed, so the only row of the snapshot has
\* neither price nor ratio, and the snapshot was written to the cache.
C30_Witness ==
  /\ last.op = "getOrBuild" /\ last.path = "built"
  /\ last.pcWrite = "ok"
  /\ Len(Val(last.body).stocks) = 1
  /\ Val(last.body).stocks[1].cmp = None
  /\ Val(last.body).stocks[1].peRatio = None
  /\ portfolioCache[last.user] = last.body


\* C31: once the snapshot of a portfolio whose symbols failed at every
\* provider is in the Portfolio Cache, a further call of the handler that
\* reads it before it expires and answers with a snapshot answers from the
\* cache: it loads no holdings, calls no fetchQuote and rebuilds nothing.
C31_AllNullSnapshotServedFromCache ==
  (/\ ReadSnapshot
   /\ Len(Val(last.cached).stocks) > 0
   /\ \A i \in 1..Len(Val(last.cached).stocks) :
        /\ Val(last.cached).stocks[i].cmp = None
        /\ Val(last.cached).stocks[i].peRatio = None
        /\ Val(last.cached).stocks[i].latestEarnings = None
   /\ last.status = 200) =>
    /\ last.path = "hit"
    /\ last.body = last.cached
    /\ last.dbLoads = 0 /\ last.fetches = 0


\* C32: when the worker processes a message whose userId has no row in the
\* persistent store, the message is acknowledged, no quote is fetched and no
\* cache is written for it, and the worker goes on with the next message of
\* the batch (or, after the last one, with the delay before the next read).
C32_MissingUserAcknowledged ==
  [][ (/\ wpc = "processing" /\ wbatch # <<>>
       /\ db[Head(wbatch).userId] = None
       /\ last'.op = "message") =>
        /\ Head(wbatch).streamId \in acked'
        /\ Head(wbatch).streamId \notin pel'
        /\ UNCHANGED <<quoteCache, portfolioCache, clock>>
        /\ wbatch' = Tail(wbatch)
        /\ wpc' = IF Len(wbatch) = 1 THEN "delay" ELSE "processing" ]_vars


SaneNumbers(q) ==
  /\ q.cmp # None => Val(q.cmp) > 0
  /\ q.peRatio # None => Val(q.peRatio) > 0 /\ Val(q.peRatio) < 1000000

C34_InsaneNumbersAbsent ==
  /\ \A k \in QuoteKeys : quoteCache[k] # None => SaneNumbers(Val(quoteCache[k]))
  /\ (last.op = "getOrBuild" /\ last.body # None) =>
        \A i \in 1..Len(Val(last.body).stocks) :
          LET row == Val(last.body).stocks[i]
          IN  /\ SaneNumbers(row)
              /\ (row.purchasePrice > 0 /\ row.quantity > 0) => row.presentValue > 0

\* C35: for the same holdings and the same outcome of the build (the same
\* run of buildEnrichedPortfolio, one that rejects included) the Queue
\* Worker and the Serving Path store the same snapshot, or both store none.
C35_WorkerStoresWhatServingStores ==
  \A u \in StoredUsers :
    LET stocks == StocksOf(Val(db[u])) IN
    \A b \in buildEnrichedPortfolio(u, stocks, quoteCache, clock + 1) :
      WorkerStores(u, b, clock + 1) = ServingStores(u, stocks, b, clock + 1)

\* C36: at most one invocation of processBatch is executing or scheduled at
\* any time: a started worker has exactly one, every path through
\* processBatch (empty read, completed batch, thrown error) leaves exactly
\* one successor, and a step of the worker rebuilds at most one user.
C36_OneProcessBatchAtATime ==
  /\ [](/\ scheduled <= 1
        /\ (scheduled = 1) <=> (wpc \in {"ready", "processing", "delay", "backoff"}))
  /\ [][ /\ last'.op \in {"read", "message"} =>
              /\ scheduled = 1 /\ scheduled' = 1
              /\ wpc' \in {"ready", "processing", "delay", "backoff"}
              /\ (wpc' = "processing") <=> (wbatch' # <<>>)
         /\ last'.op = "message" =>
              /\ wpc = "processing"
              /\ Cardinality({ u \in Users : portfolioCache'[u] # portfolioCache[u] }) <= 1
              /\ \A u \in Users :
                   (portfolioCache'[u] # portfolioCache[u]) => (u = Head(wbatch).userId) ]_vars

\* C36 witness: a batch ended in the outer catch (both acknowledges of a
\* message rejected) and one retry of processBatch is scheduled.
C36_Witness ==
  /\ last.op = "message" /\ last.how = "abandoned"
  /\ wpc = "backoff" /\ scheduled = 1

\* C37: a failure while one message of a batch is processed (the load of the
\* holdings, the rebuild, the cache write or the acknowledge raising) is
\* isolated to that message: the message is acknowledged and the loop goes
\* on with the other messages of the batch.
C37_FailureIsolatedToMessage ==
  [][ (last'.op = "message" /\ last'.how # "done") =>
        /\ Head(wbatch).streamId \in acked'
        /\ wbatch' = Tail(wbatch)
        /\ (wbatch' # <<>>) => (wpc' = "processing") ]_vars

\* C38: nothing de-duplicates or removes stream entries: the stream only
\* grows at its end, an accepted request appends a message for its userId and
\* a tick one for every user it enumerated even when messages of that user
\* are still undelivered, reading and acknowledging leave the stream as it
\* is, and as long as the store is reachable a request is never refused
\* because of the backlog (up to the bound MaxStream of the exploration).
C38_StreamOnlyGrows ==
  /\ [][ /\ Len(stream') >= Len(stream)
         /\ SubSeq(stream', 1, Len(stream)) = stream
         /\ (last'.op = "post" /\ last'.status = 202) =>
              stream' = Append(stream, last'.userId)
         /\ (last'.op = "tick" /\ last'.how = "pushed") =>
              \E users \in Orders(UsersWithPortfolio) : stream' = stream \o users
         /\ last'.op \in {"read", "message", "timer", "start", "restart"} =>
              stream' = stream ]_vars
  /\ []((redisUrl /\ Len(stream) < MaxStream) =>
          \A u \in Users :
            ENABLED (PostRefreshPortfolio(JsonBody(u)) /\ stream' = Append(stream, u)))

\* C38 witness: a request has just appended a second message for a user
\* whose first message is still undelivered.
C38_Witness ==
  /\ last.op = "post" /\ last.status = 202
  /\ Len(stream) = 2 /\ stream[1] = stream[2] /\ last.userId = stream[2]
  /\ lastDelivered = 0

\* C39: a run of the Scheduler's refresh pushes the users it enumerated one
\* after another; when the push of one user raises, the run ends and the
\* users after it are not pushed by it, the other runs going on untouched;
\* a later run enumerates every user again; and runs are not mutually
\* exclusive: a new run can start while earlier ones are still in flight.
C39_TickStopsAtFailedPush ==
  /\ [][ /\ last'.op = "push" =>
              LET i == last'.run
                  todo == refreshing[i]
              IN  /\ last'.user = Head(todo) /\ last'.left = Tail(todo)
                  /\ (last'.how = "pushed") =>
                       /\ stream' = Append(stream, Head(todo))
                       /\ refreshing' = IF Len(todo) = 1 THEN RemoveAt(refreshing, i)
                                        ELSE [refreshing EXCEPT ![i] = Tail(todo)]
                  /\ (last'.how = "threw") =>
                       /\ stream' = stream
                       /\ refreshing' = RemoveAt(refreshing, i)
         /\ (last'.op = "refresh" /\ last'.how = "started") =>
              /\ last'.users \in Orders(UsersWithPortfolio)
              /\ stream' = stream
              /\ refreshing' = Append(refreshing, last'.users) ]_vars
  /\ []((redisUrl /\ Len(refreshing) < MaxRefreshing) =>
          ENABLED (RefreshStart /\ last'.how = "started"))

\* C39 witness: the push of the first user of a run has just raised with a
\* user left that it will not push, while another run, which has pushed its
\* first user, is still in flight.
C39_Witness ==
  /\ last.op = "push" /\ last.how = "threw" /\ last.left # <<>>
  /\ Len(refreshing) = 1 /\ Len(refreshing[1]) = 1
  /\ Len(stream) = 1

\* The stock rows a snapshot lists are exactly the rows h of the store.
ListsHoldings(userId, h) ==
  /\ portfolioCache[userId] # None
  /\ LET rows == Val(portfolioCache[userId]).stocks IN
     /\ Len(rows) = Len(h)
     /\ \A i \in 1..Len(h) :
          /\ rows[i].symbol = h[i].symbol
          /\ rows[i].purchasePrice = h[i].purchasedPrice
          /\ rows[i].quantity = h[i].purchasedQuantity
          /\ rows[i].investment = h[i].investment

HoldingsValues == { [i \in 1..n |-> StockTCS] : n \in 0..MaxHoldings }

\* C40: adding or deleting a stock leaves the Portfolio Cache as it is (so a
\* live snapshot of other holdings may still be served); and with the
\* Scheduler, the queue, the worker and the stores running, whatever the
\* holdings of the user are, either they change again or the cached snapshot
\* of the user eventually lists exactly them.
C40_SnapshotCatchesUpWithHoldings ==
  /\ [][ last'.op \in {"postStock", "deleteStocks"} => UNCHANGED portfolioCache ]_vars
  /\ \A h \in HoldingsValues :
       (StocksOf(Val(db["u1"])) = h)
         ~> (ListsHoldings("u1", h) \/ StocksOf(Val(db["u1"])) # h)

\* C40 witness: the stock of the user was deleted after a snapshot with live
\* data was cached, and a request has just been served that snapshot, which
\* still lists the stock.
C40_Witness ==
  /\ last.op = "getOrBuild" /\ last.user = "u1" /\ last.path = "hit"
  /\ StocksOf(Val(db["u1"])) = <<>>
  /\ Len(Val(last.body).stocks) = 1
  /\ ~ListsHoldings("u1", <<>>)

====
